---- MODULE Spec2Model ----
(***************************************************************************)
(* Model of plugins/push/api/send/audience.js: the scheduling run          *)
(* (SchedulePusher.run), the two date mappers (PlainApiMapper,             *)
(* CohortsEventsMapper) on top of the base Mapper, and the cancellation    *)
(* path of Popper (clear).                                                 *)
(*                                                                         *)
(* Times are milliseconds since an epoch placed a few days before "now",   *)
(* so that every instant of the model fits TLC's integers.                 *)
(***************************************************************************)
EXTENDS Integers, Sequences, FiniteSets, TLC

\* ------------------------------------------------------------------ bounds
\* longest app_users collection the model enumerates
MaxUsers == 2
MaxCompiles == 2
\* DEFAULTS.queue_insert_batch, scaled down so that a batch can fill
BatchSize == 2

\* --------------------------------------------------------------- constants
\* "* 60000": minutes to milliseconds
Minute == 60000
Hour == 60 * Minute
\* "24 * 60 * 60000": the reschedule step of CohortsEventsMapper.map
Day == 24 * 60 * Minute

\* --------------------------------------------------------------- JS values
Undefined == [js |-> "undefined"]
Null == [js |-> "null"]
\* !x for the values a mapper can return (objects, null, undefined)
Truthy(v) == v # Undefined /\ v # Null
\* an optional number or string is <<>> (undefined) or <<v>>
Has(o) == o # <<>>
\* a delivery record, as Mapper.map builds it
IsPush(v) == v.js = "push"

\* --------------------------------------------------------------- platforms
\* PLATFORM[p].FIELDS of ./platforms: the token fields of each platform
Platforms == {"i", "a"}
FIELDS(p) == IF p = "i" THEN <<"p", "d">> ELSE <<"p">>

RECURSIVE Flat(_)
\* Array.prototype.flat on an array of arrays
Flat(ss) == IF ss = <<>> THEN <<>> ELSE Head(ss) \o Flat(Tail(ss))

\* fields(platforms, true) of ./platforms: every targeted (platform, field)
PlatformFields(platforms) ==
    Flat([i \in 1..Len(platforms) |->
            [j \in 1..Len(FIELDS(platforms[i])) |->
                <<platforms[i], FIELDS(platforms[i])[j]>>]])

AllPF == {<<"i", "p">>, <<"i", "d">>, <<"a", "p">>}

\* --------------------------------------------------------------- inputs
NoTokens == [pf \in AllPF |-> <<>>]
UserA == [uid |-> "ua", tz |-> <<>>,
          tk |-> [NoTokens EXCEPT ![<<"a", "p">>] = <<"ta">>]]
UserB == [uid |-> "ub", tz |-> <<60>>,
          tk |-> [NoTokens EXCEPT ![<<"i", "p">>] = <<"tbi">>, ![<<"a", "p">>] = <<"tba">>]]
UserC == [uid |-> "uc", tz |-> <<0>>,
          tk |-> [NoTokens EXCEPT ![<<"i", "d">>] = <<"tc">>]]
UserPool == {UserA, UserB, UserC}

\* app_users collections: sequences of distinct users, at most MaxUsers long
UserSeqs == {s \in UNION {[1..n -> UserPool] : n \in 0..MaxUsers} :
                \A i, j \in 1..Len(s) : i # j => s[i] # s[j]}

\* Date.now() of the model
Now0 == 3 * Day + 10 * Hour
\* reference dates: more than two days before now, and two hours before now
RefDates == {Now0 - 2 * Day - 3 * Hour, Now0 - 2 * Hour}

TriggerKinds == {"api", "plain", "cohort", "event"}
NoAnchor == [time |-> <<>>, reschedule |-> FALSE, delay |-> 0, end |-> <<>>]
NoZone == [tz |-> FALSE, sctz |-> 0]
MkTrigger(kind, zone, anchor) ==
    [kind |-> kind, tz |-> zone.tz, sctz |-> zone.sctz, time |-> anchor.time,
     reschedule |-> anchor.reschedule, delay |-> anchor.delay, end |-> anchor.end]
Anchors == [time : {<<>>, <<9 * Hour>>, <<20 * Hour>>}, reschedule : BOOLEAN,
            delay : {0, Hour}, end : {<<>>, <<Now0 + 2 * Hour>>}]
Triggers ==
    {MkTrigger("plain", z, NoAnchor) : z \in {NoZone, [tz |-> TRUE, sctz |-> 120]}}
    \cup {MkTrigger("api", NoZone, NoAnchor)}
    \cup {MkTrigger("cohort", NoZone, a) : a \in Anchors}
    \cup {MkTrigger("event", NoZone, a) :
            a \in {x \in Anchors : x.time = <<9 * Hour>> /\ x.delay = 0 /\ x.end = <<>>}}

\* the process: utcOffset() of the app's timezone and getTimezoneOffset()
Apps == {[_id |-> "app", offset |-> 0, serverTzOffset |-> 0],
         [_id |-> "app", offset |-> 0 - 300, serverTzOffset |-> 0 - 60]}

\* message.filter with nothing to restrict on
EmptyFilter == [geos |-> <<>>, cohorts |-> <<>>, user |-> <<>>, drill |-> <<>>]

Messages == {[_id |-> "M", platforms |-> ps, filter |-> EmptyFilter] :
                ps \in {<<"a">>, <<"i", "a">>}}

\* filter.user: the sub-query "message" as an array of ids or as {$in: ids},
\* the sub-query "geo", the flag steps() may add, and the other keys
UserQueries == [message : {"none", "array", "in"}, geo : BOOLEAN, invalidgeo : {FALSE},
                rest : {{}, {"age"}}]

\* filter.drill.queryObject.chr
Chr(in, nin) == [in |-> in, nin |-> nin]

\* filter.drill: without queryObject, or with the keys of queryObject
DrillQuery(chr, keys) == [queryObject |-> <<[chr |-> chr, keys |-> keys]>>]
DrillQueries ==
    {[queryObject |-> <<>>],
     DrillQuery(<<Chr(<<"c1", "c2">>, <<>>)>>, {}),
     DrillQuery(<<Chr(<<"c1">>, <<"c2">>)>>, {}),
     DrillQuery(<<Chr(<<"c1">>, <<"c1">>)>>, {}),
     DrillQuery(<<Chr(<<"c1">>, <<>>)>>, {"sg"}),
     DrillQuery(<<>>, {"sg"})}

Optional(S) == {<<>>} \cup {<<x>> : x \in S}

Filters == [geos : {<<>>, <<"g1">>}, cohorts : {<<>>, <<"c1">>},
            user : Optional(UserQueries), drill : Optional(DrillQueries)]

FilterMessages == {[_id |-> "M", platforms |-> ps, filter |-> f] :
                      ps \in {<<"a">>, <<"i", "a">>}, f \in Filters}

\* what geo() and drill() return and what the awaited calls of steps() give:
\* the documents of collection geos, the regions of geo().query, the uids of
\* fetchUsers, the documents of filterMessage, and the call that rejects
Providers == [geo : BOOLEAN, drill : BOOLEAN, geos : {<<"g1">>},
              regions : {<<>>, <<"r1">>}, uids : {<<"ua">>}, msgs : {<<"ub">>},
              fail : {"none", "geos", "msgs", "regions", "uids"}]
NoProviders == [geo |-> FALSE, drill |-> FALSE, geos |-> <<"g1">>, regions |-> <<>>,
                uids |-> <<"ua">>, msgs |-> <<"ub">>, fail |-> "none"]

\* the projections steps() is called with
Projects == {"uid", "userFields"}

Contents == {Undefined, [js |-> "contents"]}

\* a record another run left in the push collection
Queued(m, p, u) == [js |-> "push", _id |-> Now0, m |-> m, p |-> p, f |-> "p", u |-> u,
                    t |-> <<"told">>, pr |-> Undefined, c |-> Undefined]
Queues == {<<>>,
           <<Queued("M", "a", "ua"), Queued("M", "i", "ub"), Queued("N", "a", "ua")>>}

VARIABLES
    message,    \* this.audience.message
    trigger,    \* this.trigger
    app,        \* this.audience.app and the process' timezone
    contents,   \* this.contents
    start,      \* the Date handed to mapper.map
    now,        \* Date.now()
    users,      \* collection app_users<app id>
    queue,      \* collection push
    pc,         \* position of SchedulePusher.run
    steps,      \* compiled aggregation steps
    stream,     \* users the aggregation cursor has still to yield
    user,       \* loop variable of "for await (let user of stream)"
    mi,         \* index of the mapper to apply next
    batch,      \* Push.batchInsert(batchSize): buffer and running total
    lastMap,    \* the last call of mapper.map and what it returned
    streamed,   \* users yielded so far
    handed,     \* what was passed to batch.pushSync so far
    signals,    \* times pushSync reported a full batch
    flushLog,   \* the batch.flush() calls that completed
    failed,     \* the awaited provider operation that rejected, or "none"
    clearPc,    \* position of Popper.clear
    clearRet,   \* what clear resolved with
    msgDoc,     \* the stored message document: state and result
    clear2Pc,   \* position of clear() of a second popper of the message
    clear2Ret,  \* what that clear resolved with
    termPc,     \* position of Popper.terminate
    termRet,    \* what terminate resolved with
    updates,    \* the updates issued to the message store
    clearAt,    \* where run() was when the first clear settled
    providers,  \* the plugins installed and what their calls give
    compiled,   \* the calls of steps() made on the message, as they settled
    mapLog,     \* the calls of mapper.map of the run: user and mapper index
    mirror,     \* result.processed and the cancelled counts of the message in memory
    storeUp,    \* does message.update resolve
    rules,      \* this._rules of the ScheduledTrigger
    synced,     \* the argument of the last syncRules call
    piped       \* the rules the last "/hooks/schedule" dispatch handed to process

env == <<message, trigger, app, contents, start, now, users>>
runVars == <<pc, steps, stream, user, mi, batch, lastMap, mapLog, streamed, handed, signals,
             flushLog, failed>>
popVars == <<clearPc, clearRet, msgDoc, clear2Pc, clear2Ret, termPc, termRet, updates,
             clearAt, mirror, storeUp>>
stepVars == <<providers, compiled>>
hookVars == <<rules, synced, piped>>
vars == <<env, queue, runVars, popVars, stepVars, hookVars>>

\* --------------------------------------------------------- ScheduledTrigger
\* longest array of hook rules handed to the trigger
MaxRules == 2

TriggerTypes == {"ScheduledTrigger", "APIEndPointTrigger"}

\* hook records: r._id and r.trigger.type
Rules == [id : {1, 2}, trigger : [type : TriggerTypes]]

RuleArrays == UNION {[1..n -> Rules] : n \in 0..MaxRules}

\* a JavaScript value handed in as "rules": an array of hook records, undefined,
\* null, or one hook record that is not wrapped in an array
Arrays == {[kind |-> "array", items |-> a] : a \in RuleArrays}
NonArrays == {[kind |-> k, items |-> <<>>] : k \in {"undefined", "null"}}
                 \cup {[kind |-> "object", items |-> <<r>>] : r \in Rules}
Args == Arrays \cup NonArrays

\* syncRules has not been called yet
NotCalled == [kind |-> "none", items |-> <<>>]

\* rules instanceof Array
IsArray(a) == a.kind = "array"

\* r.trigger.type === 'ScheduledTrigger'
IsScheduled(r) == r.trigger.type = "ScheduledTrigger"

\* rules.filter(r => r.trigger.type === 'ScheduledTrigger')
Filter(a) == SelectSeq(a, IsScheduled)

\* options.rules || []
RulesOf(options) ==
    IF options.rules.kind \in {"undefined", "null"} THEN <<>> ELSE options.rules.items

\* the options a ScheduledTrigger is constructed with: rules absent or an array
Options == {[rules |-> a] : a \in Arrays \cup {[kind |-> "undefined", items |-> <<>>]}}

\* ------------------------------------------------------------ Audience.steps
Range(seq) == {seq[k] : k \in 1..Len(seq)}

\* steps.push(step) of a call that has not thrown
Push(acc, step) == [acc EXCEPT !.steps = Append(@, step)]

\* an awaited call rejects, or an expression throws: steps() rejects
Throw(acc, what) == [acc EXCEPT !.status = what]

\* "We have a token": the steps begin with the $or over the token fields
TokenStep(msg) ==
    [status |-> "ok", filter |-> msg.filter, fetches |-> 0,
     steps |-> <<[op |-> "match_or", flds |-> PlatformFields(msg.platforms)]>>]

\* "Geos"
GeoStep(acc, prov) ==
    IF acc.status = "ok" /\ Len(acc.filter.geos) > 0 /\ prov.geo
        THEN IF prov.fail = "geos"
                THEN Throw(acc, "rejected")
                ELSE Push(acc, [op |-> "match_geo",
                                conds |-> SelectSeq(prov.geos, LAMBDA g :
                                              g \in Range(acc.filter.geos))])
        ELSE acc

\* "Cohorts"
CohortStep(acc) ==
    IF acc.status = "ok" /\ Len(acc.filter.cohorts) > 0
        THEN Push(acc, [op |-> "match_chr",
                        marks |-> [id \in Range(acc.filter.cohorts) |-> "true"]])
        ELSE acc

\* "if (query.message)": filterMessage reads this.db.ObjectID for the forms
\* {$in} and {$nin}, and an Audience has no property db
UserMessageStep(acc, prov) ==
    IF acc.status = "ok" /\ Has(acc.filter.user) /\ acc.filter.user[1].message # "none"
        THEN IF acc.filter.user[1].message # "array"
                THEN Throw(acc, "TypeError")
                ELSE IF prov.fail = "msgs"
                        THEN Throw(acc, "rejected")
                        ELSE Push([acc EXCEPT !.filter.user[1].message = "none"],
                                  [op |-> "match_uid", uids |-> prov.msgs])
        ELSE acc

\* the geo sub-query when no region found leaves the query unmarked
UserGeoStep_unmarked(acc, prov) ==
    IF acc.status = "ok" /\ Has(acc.filter.user) /\ acc.filter.user[1].geo
        THEN IF prov.drill /\ prov.geo
                THEN IF prov.fail = "regions"
                        THEN Throw(acc, "rejected")
                        ELSE IF Len(prov.regions) > 0
                                THEN Push([acc EXCEPT !.filter.user[1].geo = FALSE],
                                          [op |-> "match_geo", conds |-> prov.regions])
                                ELSE [acc EXCEPT !.filter.user[1].geo = FALSE]
                ELSE [acc EXCEPT !.filter.user[1].geo = FALSE]
        ELSE acc

\* "if (query.geo)"
UserGeoStep(acc, prov) ==
    IF acc.status = "ok" /\ Has(acc.filter.user) /\ acc.filter.user[1].geo
        THEN IF prov.drill /\ prov.geo
                THEN IF prov.fail = "regions"
                        THEN Throw(acc, "rejected")
                        ELSE IF Len(prov.regions) > 0
                                THEN Push([acc EXCEPT !.filter.user[1].geo = FALSE],
                                          [op |-> "match_geo", conds |-> prov.regions])
                                ELSE [acc EXCEPT !.filter.user[1].geo = FALSE,
                                                 !.filter.user[1].invalidgeo = TRUE]
                ELSE [acc EXCEPT !.filter.user[1].geo = FALSE]
        ELSE acc

\* "Object.keys(query)" once the two sub-queries are dealt with
Keys(query) ==
    query.rest \cup (IF query.message # "none" THEN {"message"} ELSE {})
               \cup (IF query.geo THEN {"geo"} ELSE {})
               \cup (IF query.invalidgeo THEN {"invalidgeo"} ELSE {})

\* "if (Object.keys(query).length)"
UserRestStep(acc) ==
    IF acc.status = "ok" /\ Has(acc.filter.user) /\ Keys(acc.filter.user[1]) # {}
        THEN Push(acc, [op |-> "match_query", query |-> acc.filter.user[1]])
        ELSE acc

\* the object "cohorts" of the chr special case: $nin is written after $in
ChrMarks(chr) ==
    [id \in Range(chr.in) \cup Range(chr.nin) |->
        IF id \in Range(chr.nin) THEN "notexists" ELSE "true"]

\* the drill block when a drill query without the plugin is an error
DrillStep_required(acc, prov) ==
    IF acc.status = "ok" /\ Has(acc.filter.drill)
        THEN IF ~prov.drill
                THEN Throw(acc, "rejected")
                ELSE LET qo == acc.filter.drill[1].queryObject
                     IN  IF Has(qo) /\ Has(qo[1].chr) /\ qo[1].keys = {}
                            THEN Push(acc, [op |-> "match_chr",
                                            marks |-> [id \in Range(qo[1].chr[1].in)
                                                           \cup Range(qo[1].chr[1].nin) |->
                                                         IF id \in Range(qo[1].chr[1].nin)
                                                            THEN "notexists" ELSE "true"]])
                            ELSE IF ~Has(qo)
                                    THEN Throw(acc, "TypeError")
                                    ELSE IF prov.fail = "uids"
                                            THEN Throw([acc EXCEPT !.fetches = @ + 1],
                                                       "rejected")
                                            ELSE Push([acc EXCEPT !.fetches = @ + 1],
                                                      [op |-> "match_uid",
                                                       uids |-> prov.uids])
        ELSE acc

\* "Drill query": "delete params.qstring.queryObject.chr" throws when the
\* query has no queryObject
DrillStep(acc, prov) ==
    IF acc.status = "ok" /\ Has(acc.filter.drill) /\ prov.drill
        THEN LET qo == acc.filter.drill[1].queryObject
             IN  IF Has(qo) /\ Has(qo[1].chr) /\ qo[1].keys = {}
                    THEN Push(acc, [op |-> "match_chr", marks |-> ChrMarks(qo[1].chr[1])])
                    ELSE IF ~Has(qo)
                            THEN Throw(acc, "TypeError")
                            ELSE LET called ==
                                         [acc EXCEPT
                                            !.filter.drill[1].queryObject[1].chr = <<>>,
                                            !.fetches = @ + 1]
                                 IN  IF prov.fail = "uids"
                                        THEN Throw(called, "rejected")
                                        ELSE Push(called, [op |-> "match_uid",
                                                           uids |-> prov.uids])
        ELSE acc

\* the last step when the default projection is emitted whatever is asked
ProjectStep_uid(acc, project) ==
    IF acc.status = "ok" THEN Push(acc, [op |-> "project", project |-> "uid"]) ELSE acc

\* "steps.push({$project: project})"
ProjectStep(acc, project) ==
    IF acc.status = "ok" THEN Push(acc, [op |-> "project", project |-> project]) ELSE acc

\* one call of steps(project): how it settles, the steps built, the filter
\* of the message as the call leaves it, and the calls of fetchUsers
StepsCall(msg, project, prov) ==
    LET token == {TokenStep(msg)}
        geos == {GeoStep(acc, prov) : acc \in token}
        cohorts == {CohortStep(acc) : acc \in geos}
        msgs == {UserMessageStep(acc, prov) : acc \in cohorts}
        regions == {UserGeoStep(acc, prov) : acc \in msgs}
        rest == {UserRestStep(acc) : acc \in regions}
        drilled == {DrillStep(acc, prov) : acc \in rest}
        projected == {ProjectStep(acc, project) : acc \in drilled}
    IN  CHOOSE out \in projected : TRUE

\* the array steps() resolves with
Steps(msg, project) == StepsCall(msg, project, providers).steps

\* the aggregation executor: does a user pass every $match step
Matches(u, sts) ==
    \A k \in 1..Len(sts) :
        sts[k].op = "match_or" =>
            \E n \in 1..Len(sts[k].flds) : Has(u.tk[sts[k].flds[n]])

\* aggregate(steps).stream(): the matching users, in collection order
Aggregate(us, sts) == SelectSeq(us, LAMBDA u : Matches(u, sts))

\* ------------------------------------------------------------------ mappers
\* the object literal "ret" of Mapper.map
MapperRet(mapper, usr, date, pr, c) ==
    [js |-> "push", _id |-> date, m |-> mapper.message._id, p |-> mapper.p,
     f |-> mapper.f, u |-> usr.uid, t |-> usr.tk[<<mapper.p, mapper.f>>],
     pr |-> pr, c |-> c]

\* Mapper.map as it should be: the record built is the record returned
MapperMap_ret(mapper, usr, date, pr, c) == MapperRet(mapper, usr, date, pr, c)

\* Mapper.map(user, date, pr, c): builds ret, then returns its parameter c
MapperMap(mapper, usr, date, pr, c) ==
    LET ret == MapperRet(mapper, usr, date, pr, c)
    IN  c

\* the offset when a stored timezone of 0 counts as no timezone
Utz_falsy(mapper, usr) ==
    (IF ~Has(usr.tz) \/ usr.tz = <<0>> THEN mapper.offset ELSE usr.tz[1]) * Minute

\* "(user.tz === undefined || user.tz === null ? this.offset || 0 : user.tz || 0) * 60000"
Utz(mapper, usr) ==
    (IF ~Has(usr.tz) THEN mapper.offset ELSE usr.tz[1]) * Minute

\* the instant PlainApiMapper.map hands to super.map
PlainApiDate(mapper, usr, date) ==
    IF mapper.trigger.tz
        THEN date - mapper.trigger.sctz * Minute - Utz(mapper, usr)
        ELSE date

\* PlainApiMapper.map(user, date, c): super.map(user, d, c) binds c to the
\* parameter pr and leaves the parameter c undefined
PlainApiMapperMap(mapper, usr, date, c) ==
    MapperMap(mapper, usr, PlainApiDate(mapper, usr, date), c, Undefined)

\* auto: midnight of d in the calendar of the process
LocalMidnight(mapper, d) == d - ((d - mapper.serverTzOffset * Minute) % Day)

\* inTz: the time of day of the trigger on the day of d, in the user's zone
InTz(mapper, usr, d) ==
    LocalMidnight(mapper, d) + mapper.trigger.time[1]
        + mapper.serverTzOffset * Minute - Utz(mapper, usr)

\* the time-of-day block when the reschedule flag is not consulted
AnchoredCandidate_always(mapper, usr, date, t) ==
    IF Has(mapper.trigger.time)
        THEN LET inTz == InTz(mapper, usr, date)
             IN  IF inTz < t THEN <<inTz + Day>> ELSE <<inTz>>
        ELSE <<date>>

\* the instant after the time-of-day block of CohortsEventsMapper.map, <<>>
\* when that block returns null
AnchoredCandidate(mapper, usr, date, t) ==
    IF Has(mapper.trigger.time)
        THEN LET inTz == InTz(mapper, usr, date)
             IN  IF inTz < t
                    THEN IF mapper.trigger.reschedule THEN <<inTz + 24 * 60 * Minute>>
                                                      ELSE <<>>
                    ELSE <<inTz>>
        ELSE <<date>>

\* "if (this.trigger.delay) d += this.trigger.delay"
Delayed(mapper, d) == IF mapper.trigger.delay # 0 THEN d + mapper.trigger.delay ELSE d

\* the same test when the expiry date is not consulted
Expired_never(mapper, d) == FALSE

\* "this.trigger.end && this.trigger.end.getTime() < d"
Expired(mapper, d) == Has(mapper.trigger.end) /\ mapper.trigger.end[1] < d

\* the instant CohortsEventsMapper.map hands to super.map, <<>> when it
\* returns null before that
CohortsEventsDate(mapper, usr, date, t) ==
    LET cand == AnchoredCandidate(mapper, usr, date, t)
    IN  IF ~Has(cand) THEN <<>>
        ELSE IF Expired(mapper, Delayed(mapper, cand[1])) THEN <<>>
        ELSE <<Delayed(mapper, cand[1])>>

\* CohortsEventsMapper.map(user, date, c)
CohortsEventsMapperMap(mapper, usr, date, c, t) ==
    LET d == CohortsEventsDate(mapper, usr, date, t)
    IN  IF ~Has(d) THEN Null
        ELSE MapperMap(mapper, usr, d[1], c, Undefined)

\* mapper.map(user, start, this.contents), by the class of the mapper
Map(mapper, usr, date, c, t) ==
    IF mapper.class = "PlainApiMapper"
        THEN PlainApiMapperMap(mapper, usr, date, c)
        ELSE CohortsEventsMapperMap(mapper, usr, date, c, t)

\* the constructor of PusherPopper: one mapper for each platform and field
Mappers(ap, msg, tr) ==
    LET pfs == PlatformFields(msg.platforms)
    IN  [k \in 1..Len(pfs) |->
            [class |-> IF tr.kind = "api" \/ tr.kind = "plain"
                          THEN "PlainApiMapper" ELSE "CohortsEventsMapper",
             offset |-> ap.offset, serverTzOffset |-> ap.serverTzOffset,
             message |-> msg, trigger |-> tr, p |-> pfs[k][1], f |-> pfs[k][2]]]

\* ------------------------------------------------------------- queue writer
\* Push.batchInsert(batchSize)
BatchInsert == [buf |-> <<>>, total |-> 0]
\* batch.pushSync(push): the batch after the push
PushSync(b, push) == [buf |-> Append(b.buf, push), total |-> b.total + 1]
\* what pushSync returns: the caller must flush
Full(b) == Len(b.buf) >= BatchSize

\* ------------------------------------------------------------------- state
\* the keys of result.errors.<key>.cancelled an update can name
ErrorKeys == {"i", "a", "0", "1"}

\* no run, no cancellation and no call of steps() made yet
Constructed ==
    /\ pc = "idle"
    /\ steps = <<>>
    /\ stream = <<>>
    /\ user = <<>>
    /\ mi = 1
    /\ batch = BatchInsert
    /\ lastMap = <<>>
    /\ mapLog = <<>>
    /\ streamed = <<>>
    /\ handed = <<>>
    /\ signals = 0
    /\ flushLog = <<>>
    /\ failed = "none"
    /\ clearPc = "idle"
    /\ clearRet = 0
    /\ msgDoc = [processed |-> 0, cancelled |-> [k \in ErrorKeys |-> 0],
                 state |-> {"Streamable"}, error |-> <<>>]
    /\ clear2Pc = "idle"
    /\ clear2Ret = 0
    /\ termPc = "idle"
    /\ termRet = 0
    /\ updates = <<>>
    /\ clearAt = "never"
    /\ mirror = [processed |-> 0, cancelled |-> [k \in ErrorKeys |-> 0]]
    /\ compiled = <<>>
    /\ synced = NotCalled
    /\ piped = <<>>

Init ==
    /\ message \in Messages
    /\ trigger \in Triggers
    /\ app \in Apps
    /\ contents \in Contents
    /\ start \in RefDates
    /\ now = Now0
    /\ users \in UserSeqs
    /\ queue \in Queues
    /\ providers = NoProviders
    /\ storeUp = TRUE
    /\ rules = <<>>
    /\ Constructed

\* this.mappers of the pusher
mappers == Mappers(app, message, trigger)

\* ------------------------------------------------------ SchedulePusher.run
\* run() is called and awaits this.audience.steps(...)
Run ==
    /\ pc = "idle"
    /\ pc' = "compiling"
    /\ UNCHANGED <<env, stepVars, hookVars, queue, popVars, steps, stream, user, mi, batch, lastMap,
                   mapLog,
                   streamed, handed, signals, flushLog, failed>>

\* steps resolved: the cursor is opened and the writer created
StepsDone ==
    /\ pc = "compiling"
    /\ steps' = Steps(message, "userFields")
    /\ \E out \in {StepsCall(message, "userFields", providers)} :
          /\ out.status = "ok"
          /\ message' = [message EXCEPT !.filter = out.filter]
    /\ stream' = Aggregate(users, steps')
    /\ batch' = BatchInsert
    /\ pc' = "streaming"
    /\ UNCHANGED <<trigger, app, contents, start, now, users, stepVars, hookVars, queue, popVars,
                   user, mi, lastMap, mapLog, streamed, handed, signals, flushLog, failed>>

\* an awaited promise rejects inside run(), which has no try/catch: the
\* promise of run() rejects
Reject(what) ==
    /\ failed' = what
    /\ pc' = "error"

\* a provider of steps() rejects
StepsFail ==
    /\ pc = "compiling"
    /\ Reject("steps")
    /\ UNCHANGED <<env, stepVars, hookVars, queue, popVars, steps, stream, user, mi, batch, lastMap,
                   mapLog,
                   streamed, handed, signals, flushLog>>

\* where run() goes when the for await loop ends
\* run() without its final flush
AfterStream_done == "done"

AfterStream == "final"

\* a cursor that yields the users from the far end
NextUser_last ==
    /\ pc = "streaming"
    /\ IF stream = <<>>
          THEN /\ pc' = AfterStream
               /\ UNCHANGED <<user, stream, streamed, mi>>
          ELSE /\ user' = <<stream[Len(stream)]>>
               /\ stream' = SubSeq(stream, 1, Len(stream) - 1)
               /\ streamed' = Append(streamed, stream[Len(stream)])
               /\ mi' = 1
               /\ pc' = "mapping"
    /\ UNCHANGED <<env, stepVars, hookVars, queue, popVars, steps, batch, lastMap, mapLog, handed,
                   signals, flushLog, failed>>

\* the cursor yields the next user, or ends
NextUser ==
    /\ pc = "streaming"
    /\ IF stream = <<>>
          THEN /\ pc' = AfterStream
               /\ UNCHANGED <<user, stream, streamed, mi>>
          ELSE /\ user' = <<Head(stream)>>
               /\ stream' = Tail(stream)
               /\ streamed' = Append(streamed, Head(stream))
               /\ mi' = 1
               /\ pc' = "mapping"
    /\ UNCHANGED <<env, stepVars, hookVars, queue, popVars, steps, batch, lastMap, mapLog, handed,
                   signals,
                   flushLog, failed>>

\* the cursor rejects
StreamFail ==
    /\ pc = "streaming"
    /\ Reject("stream")
    /\ UNCHANGED <<env, stepVars, hookVars, queue, popVars, steps, stream, user, mi, batch, lastMap,
                   mapLog,
                   streamed, handed, signals, flushLog>>

\* the loop body without its null test
Skip_never(push) == FALSE

\* "if (!push) continue"
Skip(push) == ~Truthy(push)

\* a loop over the mappers that ends after its first pass
Continue_first(i) == "streaming"

\* where run() goes after the slot mi: the next mapper, or the next user
Continue(i) == IF i < Len(mappers) THEN "mapping" ELSE "streaming"

\* the loop body when every result goes to the writer and a full batch is
\* not waited for
MapSlot_noawait ==
    /\ pc = "mapping"
    /\ LET mapper == mappers[mi]
           push == Map(mapper, user[1], start, contents, now)
       IN  /\ lastMap' = <<[mapper |-> mapper, user |-> user[1], res |-> push]>>
           /\ mapLog' = Append(mapLog, <<user[1].uid, mi>>)
           /\ batch' = PushSync(batch, push)
           /\ handed' = Append(handed, push)
           /\ signals' = IF Full(batch') THEN signals + 1 ELSE signals
           /\ pc' = Continue(mi)
    /\ mi' = mi + 1
    /\ UNCHANGED <<env, stepVars, hookVars, queue, popVars, steps, stream, user, streamed, flushLog,
                   failed>>

\* one pass of the body of "for (let mapper of this.mappers)"
MapSlot ==
    /\ pc = "mapping"
    /\ LET mapper == mappers[mi]
           push == Map(mapper, user[1], start, contents, now)
       IN  /\ lastMap' = <<[mapper |-> mapper, user |-> user[1], res |-> push]>>
           /\ mapLog' = Append(mapLog, <<user[1].uid, mi>>)
           /\ IF Skip(push)
                 THEN /\ pc' = Continue(mi)
                      /\ UNCHANGED <<batch, handed, signals>>
                 ELSE /\ batch' = PushSync(batch, push)
                      /\ handed' = Append(handed, push)
                      /\ IF Full(batch')
                            THEN signals' = signals + 1 /\ pc' = "flushing"
                            ELSE signals' = signals /\ pc' = Continue(mi)
    /\ mi' = mi + 1
    /\ UNCHANGED <<env, stepVars, hookVars, queue, popVars, steps, stream, user, streamed, flushLog,
                   failed>>

\* batch.flush() resolves: the buffer is in the push collection
Flush ==
    /\ pc \in {"flushing", "final"}
    /\ queue' = queue \o batch.buf
    /\ batch' = [batch EXCEPT !.buf = <<>>]
    /\ flushLog' = Append(flushLog, [final |-> pc = "final", n |-> Len(batch.buf)])
    /\ pc' = IF pc = "final" THEN "done" ELSE Continue(mi - 1)
    /\ UNCHANGED <<env, stepVars, hookVars, popVars, steps, stream, user, mi, lastMap, mapLog, streamed,
                   handed,
                   signals, failed>>

\* a rejected flush that run() would catch and carry on from
FlushFail_swallow ==
    /\ pc \in {"flushing", "final"}
    /\ failed' = "flush"
    /\ pc' = IF pc = "final" THEN "done" ELSE Continue(mi - 1)
    /\ UNCHANGED <<env, stepVars, hookVars, queue, popVars, steps, stream, user, mi, batch, lastMap,
                   mapLog,
                   streamed, handed, signals, flushLog>>

\* batch.flush() rejects
FlushFail ==
    /\ pc \in {"flushing", "final"}
    /\ Reject("flush")
    /\ UNCHANGED <<env, stepVars, hookVars, queue, popVars, steps, stream, user, mi, batch, lastMap,
                   mapLog,
                   streamed, handed, signals, flushLog>>

\* ------------------------------------------------------------ Popper.clear
\* the popper Audience.pop builds: the fields the constructor assigns
Popper ==
    [audience |-> [message |-> message, app |-> app], trigger |-> trigger,
     mappers |-> mappers]

\* reading a property of an object: undefined when it was never assigned
Get(obj, key) == IF key \in DOMAIN obj THEN obj[key] ELSE Undefined

RECURSIVE Sum(_)
\* "Object.values(deleted).reduce((a, b) => a + b, 0)"
Sum(ns) == IF ns = <<>> THEN 0 ELSE Head(ns) + Sum(Tail(ns))

\* the key "for (let p in deleted)" yields for the k-th element of the array
IndexKey(k) == IF k = 1 THEN "0" ELSE "1"

\* "deleted": the deletedCount of deleteMany({m, p}) for each platform of msg
Deleted(msg, q) ==
    [k \in 1..Len(msg.platforms) |->
        Len(SelectSeq(q, LAMBDA r : r.m = msg._id /\ r.p = msg.platforms[k]))]

\* the push collection after those deleteMany calls
Remaining(msg, q) ==
    SelectSeq(q, LAMBDA r :
        ~(r.m = msg._id /\ \E k \in 1..Len(msg.platforms) : r.p = msg.platforms[k]))

\* "update": the $inc built by "for (let p in deleted)", whose keys p are
\* the indices of the array
ClearUpdate(deleted) ==
    [op |-> "$inc", processed |-> Sum(deleted),
     cancelled |-> [key \in ErrorKeys |->
                      Sum([k \in 1..Len(deleted) |->
                              IF IndexKey(k) = key THEN deleted[k] ELSE 0])]]

\* the message store applying a $inc
Inc(doc, upd) ==
    [doc EXCEPT !.processed = @ + upd.processed,
                !.cancelled = [key \in ErrorKeys |-> @[key] + upd.cancelled[key]]]

\* the $set of terminate: State.Done | State.Error and the serialized error
TerminateUpdate(msgText) ==
    [op |-> "$set", state |-> {"Done", "Error"}, error |-> <<msgText>>]

\* the message store applying that $set
Set(doc, upd) == [doc EXCEPT !.state = upd.state, !.error = upd.error]

\* clear(): "this.message.platforms" is evaluated first; reading .platforms
\* of undefined throws, and the promise of clear() rejects. Past that, the
\* deletions come first, then the update with its callback on the counters
\* in memory, which runs when the update resolved
Clear ==
    /\ pc # "mapping"
    /\ clearPc = "idle"
    /\ clearAt' = pc
    /\ LET msg == Get(Popper, "message")
       IN  IF msg = Undefined
              THEN /\ clearPc' = "rejected"
                   /\ UNCHANGED <<queue, clearRet, msgDoc, updates, mirror>>
              ELSE LET deleted == Deleted(msg, queue)
                   IN  /\ queue' = Remaining(msg, queue)
                       /\ IF Len(deleted) = 0
                             THEN /\ clearRet' = Sum(deleted)
                                  /\ clearPc' = "resolved"
                                  /\ UNCHANGED <<msgDoc, updates, mirror>>
                             ELSE /\ updates' = Append(updates, ClearUpdate(deleted))
                                  /\ IF storeUp
                                        THEN /\ msgDoc' = Inc(msgDoc, ClearUpdate(deleted))
                                             /\ mirror' = Inc(mirror, ClearUpdate(deleted))
                                             /\ clearRet' = Sum(deleted)
                                             /\ clearPc' = "resolved"
                                        ELSE /\ clearPc' = "rejected"
                                             /\ UNCHANGED <<clearRet, msgDoc, mirror>>
    /\ UNCHANGED <<env, stepVars, hookVars, runVars, clear2Pc, clear2Ret, termPc, termRet, storeUp>>

\* clear() of a second popper built for the same message
Clear2 ==
    /\ pc # "mapping"
    /\ clear2Pc = "idle"
    /\ LET msg == Get(Popper, "message")
       IN  IF msg = Undefined
              THEN /\ clear2Pc' = "rejected"
                   /\ UNCHANGED <<queue, clear2Ret, msgDoc, updates, mirror>>
              ELSE LET deleted == Deleted(msg, queue)
                   IN  /\ queue' = Remaining(msg, queue)
                       /\ IF Len(deleted) = 0
                             THEN /\ clear2Ret' = Sum(deleted)
                                  /\ clear2Pc' = "resolved"
                                  /\ UNCHANGED <<msgDoc, updates, mirror>>
                             ELSE /\ updates' = Append(updates, ClearUpdate(deleted))
                                  /\ IF storeUp
                                        THEN /\ msgDoc' = Inc(msgDoc, ClearUpdate(deleted))
                                             /\ mirror' = Inc(mirror, ClearUpdate(deleted))
                                             /\ clear2Ret' = Sum(deleted)
                                             /\ clear2Pc' = "resolved"
                                        ELSE /\ clear2Pc' = "rejected"
                                             /\ UNCHANGED <<clear2Ret, msgDoc, mirror>>
    /\ UNCHANGED <<env, stepVars, hookVars, runVars, clearPc, clearRet, termPc, termRet, clearAt,
                   storeUp>>

\* terminate(): "await this.clear()" rejects as clear() does, and the $set
\* after it is not reached
Terminate ==
    /\ pc # "mapping"
    /\ termPc = "idle"
    /\ LET msg == Get(Popper, "message")
       IN  IF msg = Undefined
              THEN /\ termPc' = "rejected"
                   /\ UNCHANGED <<queue, termRet, msgDoc, updates, mirror>>
              ELSE LET deleted == Deleted(msg, queue)
                       inc == IF Len(deleted) = 0 THEN <<>> ELSE <<ClearUpdate(deleted)>>
                       set == TerminateUpdate("Terminated")
                   IN  /\ queue' = Remaining(msg, queue)
                       /\ IF storeUp
                             THEN /\ updates' = updates \o inc \o <<set>>
                                  /\ msgDoc' = Set(IF inc = <<>> THEN msgDoc
                                                                 ELSE Inc(msgDoc, inc[1]), set)
                                  /\ mirror' = IF inc = <<>> THEN mirror
                                                             ELSE Inc(mirror, inc[1])
                                  /\ termRet' = Sum(deleted)
                                  /\ termPc' = "resolved"
                             ELSE /\ updates' = updates \o (IF inc = <<>> THEN <<set>> ELSE inc)
                                  /\ termPc' = "rejected"
                                  /\ UNCHANGED <<termRet, msgDoc, mirror>>
    /\ UNCHANGED <<env, stepVars, hookVars, runVars, clearPc, clearRet, clear2Pc, clear2Ret,
                   clearAt, storeUp>>

\* ------------------------------------------------------------ specifications
Next ==
    \/ Run
    \/ StepsDone
    \/ StepsFail
    \/ NextUser
    \/ StreamFail
    \/ MapSlot
    \/ Flush
    \/ FlushFail
    \/ Clear

Spec == Init /\ [][Next]_vars

\* the run alone, every provider answering: the steps an event loop takes
\* once run() was called
Progress == StepsDone \/ NextUser \/ MapSlot \/ Flush

NextRun ==
    \/ Run
    \/ StepsDone
    \/ NextUser
    \/ MapSlot
    \/ Flush

\* the inputs the date arithmetic alone depends on are fixed here
LiveInit ==
    /\ Init
    /\ contents = Undefined
    /\ app.offset = 0
    /\ start = Now0 - 2 * Hour

LiveSpec == LiveInit /\ [][NextRun]_vars /\ WF_vars(Progress)

\* the run of a Plain trigger next to the cancellations of the same message
CancelInit ==
    /\ message \in Messages
    /\ trigger = MkTrigger("plain", NoZone, NoAnchor)
    /\ app \in {a \in Apps : a.offset = 0}
    /\ contents = Undefined
    /\ start = Now0 - 2 * Hour
    /\ now = Now0
    /\ users \in UserSeqs
    /\ queue \in Queues
    /\ providers = NoProviders
    /\ storeUp \in BOOLEAN
    /\ rules = <<>>
    /\ Constructed

NextCancel ==
    \/ Run
    \/ StepsDone
    \/ StepsFail
    \/ NextUser
    \/ StreamFail
    \/ MapSlot
    \/ Flush
    \/ FlushFail
    \/ Clear
    \/ Clear2
    \/ Terminate

CancelSpec == CancelInit /\ [][NextCancel]_vars

\* audience.steps(project) called on a message, to the point it settles
CallSteps ==
    /\ pc = "idle"
    /\ Len(compiled) < MaxCompiles
    /\ \E project \in Projects :
          LET out == StepsCall(message, project, providers)
          IN  /\ compiled' = Append(compiled, [project |-> project,
                                               before |-> message.filter, out |-> out])
              /\ message' = [message EXCEPT !.filter = out.filter]
    /\ UNCHANGED <<trigger, app, contents, start, now, users, queue, runVars, popVars,
                   providers, hookVars>>

\* a message with an audience filter, the plugins and what they answer
StepsInit ==
    /\ message \in FilterMessages
    /\ providers \in Providers
    /\ trigger = MkTrigger("plain", NoZone, NoAnchor)
    /\ app \in {a \in Apps : a.offset = 0}
    /\ contents = Undefined
    /\ start = Now0
    /\ now = Now0
    /\ users = <<>>
    /\ queue = <<>>
    /\ storeUp = TRUE
    /\ rules = <<>>
    /\ Constructed

NextSteps == CallSteps

StepsSpec == StepsInit /\ [][NextSteps]_vars

\* ----------------------------------------------- ScheduledTrigger, the calls
\* the elements of seq at the positions in S, in their order
RECURSIVE Pick(_, _)
Pick(seq, S) ==
    IF seq = <<>> THEN <<>>
    ELSE LET n == Len(seq)
         IN  Pick(SubSeq(seq, 1, n - 1), S) \o (IF n \in S THEN <<seq[n]>> ELSE <<>>)

\* syncRules(rules)
SyncRules ==
    /\ \E a \in Args :
          /\ synced' = a
          /\ rules' = IF IsArray(a) THEN Filter(a.items) ELSE rules
    /\ UNCHANGED <<env, queue, runVars, popVars, stepVars, piped>>

\* the "/hooks/schedule" handler: every held rule whose cron expression is due in
\* the current hour of its timezone goes through process() to the pipeline; which
\* rules are due is the answer of the cron and clock libraries
Schedule ==
    /\ \E due \in SUBSET (1..Len(rules)) : piped' = Pick(rules, due)
    /\ UNCHANGED <<env, queue, runVars, popVars, stepVars, rules, synced>>

\* new ScheduledTrigger(options), next to a message nothing is done with
TriggerInit ==
    /\ \E options \in Options : rules = RulesOf(options)
    /\ message = CHOOSE m \in Messages : TRUE
    /\ trigger = MkTrigger("plain", NoZone, NoAnchor)
    /\ app = CHOOSE a \in Apps : a.offset = 0
    /\ contents = Undefined
    /\ start = Now0
    /\ now = Now0
    /\ users = <<>>
    /\ queue = <<>>
    /\ providers = NoProviders
    /\ storeUp = TRUE
    /\ Constructed

NextTrigger ==
    \/ SyncRules
    \/ Schedule

TriggerSpec == TriggerInit /\ [][NextTrigger]_vars

\* ------------------------------------------------------------------ claims
\* the slot the last call of mapper.map was for
LastPF == <<lastMap[1].mapper.p, lastMap[1].mapper.f>>
Anchored == lastMap # <<>> /\ lastMap[1].mapper.class = "CohortsEventsMapper"
Immediate == lastMap # <<>> /\ lastMap[1].mapper.class = "PlainApiMapper"
LastInTz == InTz(lastMap[1].mapper, lastMap[1].user, start)

C2_NullSlotPushesNothing ==
    /\ [][(pc = "mapping"
            /\ ~Truthy(Map(mappers[mi], user[1], start, contents, now)))
          => (batch' = batch /\ queue' = queue /\ handed' = handed)]_vars
    /\ [](/\ \A k \in 1..Len(batch.buf) : IsPush(batch.buf[k])
          /\ \A k \in 1..Len(queue) : IsPush(queue[k]))

\* a mapper returned null for a slot and the writer holds nothing
C2_Witness ==
    /\ lastMap # <<>>
    /\ lastMap[1].res = Null
    /\ pc \in {"mapping", "streaming"}
    /\ batch = BatchInsert

\* C3: the mapper of API and Plain triggers returns, for every user, a
\* delivery record with the computed instant, so a finished run has queued
\* users * mappers records.
C3_ImmediateNeverSuppresses ==
    /\ Immediate =>
          /\ IsPush(lastMap[1].res)
          /\ lastMap[1].res._id = PlainApiDate(lastMap[1].mapper, lastMap[1].user, start)
    /\ (pc = "done" /\ trigger.kind \in {"api", "plain"}) =>
          batch.total = Len(streamed) * Len(mappers)

\* C4: with a time of day set, the candidate instant before now and
\* reschedule off, the mapper of Cohort and Event triggers returns null.
C4_MissedWindowSuppressed ==
    (Anchored /\ Has(trigger.time) /\ LastInTz < now /\ ~trigger.reschedule)
        => lastMap[1].res = Null

\* such a mapping took place, with a delay and an expiry date set
C4_Witness ==
    /\ Anchored /\ Has(trigger.time) /\ LastInTz < now /\ ~trigger.reschedule
    /\ trigger.delay # 0 /\ Has(trigger.end)
    /\ lastMap[1].res = Null

\* the candidate instant after the reschedule rule, and the final instant
LastCandidate ==
    IF Has(trigger.time)
        THEN IF LastInTz < now THEN LastInTz + Day ELSE LastInTz
        ELSE start
LastFinal == LastCandidate + trigger.delay
LastExpired == Has(trigger.end) /\ trigger.end[1] < LastFinal

\* C5: with a time of day set, reschedule on and the candidate instant
\* before now, the record returned carries candidate + one day + delay.
C5_RescheduledByOneDay ==
    (Anchored /\ Has(trigger.time) /\ trigger.reschedule /\ LastInTz < now
        /\ ~LastExpired)
        => /\ IsPush(lastMap[1].res)
           /\ lastMap[1].res._id = LastInTz + 86400000 + trigger.delay

MidFlushes == SelectSeq(flushLog, LAMBDA x : ~x.final)
FinalFlushes == SelectSeq(flushLog, LAMBDA x : x.final)

C8_RunReachesDone ==
    /\ (pc = "compiling") ~> (pc = "done")
    /\ [](pc = "done" =>
            /\ Len(FinalFlushes) = 1
            /\ stream = <<>>
            /\ batch.buf = <<>>
            /\ \E q \in Queues : queue = q \o handed)

\* a run over two users is Done
C8_Witness ==
    /\ pc = "done"
    /\ Len(streamed) = 2
    /\ batch.buf = <<>>

\* C9: a rejected provider operation leaves the run in Error; a run in Error
\* stays there, and no flush completes and nothing is inserted after it.
C9_FailureRejects ==
    /\ [](failed # "none" => pc = "error")
    /\ [](pc = "error" => failed # "none")
    /\ [][pc = "error" =>
            (pc' = "error" /\ flushLog' = flushLog /\ Len(queue') <= Len(queue))]_vars

\* a flush rejected after users were streamed
C9_Witness ==
    /\ failed = "flush"
    /\ pc = "error"
    /\ Len(streamed) > 0

\* C10: clear, with no run of the message started, resolves with the number
\* of records removed, and has removed every record of the message on its
\* platforms and nothing else.
C10_ClearRemovesTargeted ==
    (clearPc # "idle" /\ pc = "idle") =>
        /\ clearPc = "resolved"
        /\ \A k \in 1..Len(queue) :
              ~(queue[k].m = message._id
                /\ \E n \in 1..Len(message.platforms) : queue[k].p = message.platforms[n])
        /\ \E q \in Queues :
              /\ queue = SelectSeq(q, LAMBDA r :
                            ~(r.m = message._id
                              /\ \E n \in 1..Len(message.platforms) :
                                    r.p = message.platforms[n]))
              /\ clearRet = Len(q) - Len(queue)

\* the push collection one of the initial states holds, of which the present
\* one is what the deletions of clear leave
Cleared(q) == q \in Queues /\ queue = Remaining(message, q)

\* C11: a clear that settled, alone, with no run started and the message
\* store taking updates, has resolved,
\* has issued exactly one $inc, and the stored message has result.processed
\* raised by the sum of the deleted counts and, for each platform p of the
\* message, result.errors.<p>.cancelled raised by the count deleted for p.
C11_ClearIncrements ==
    (clearPc # "idle" /\ storeUp /\ clear2Pc = "idle" /\ termPc = "idle" /\ pc = "idle") =>
        /\ clearPc = "resolved"
        /\ Len(updates) = 1
        /\ updates[1].op = "$inc"
        /\ \E q \in Queues :
              /\ Cleared(q)
              /\ msgDoc.processed = Sum(Deleted(message, q))
              /\ \A k \in 1..Len(message.platforms) :
                    msgDoc.cancelled[message.platforms[k]] = Deleted(message, q)[k]

\* C12: a clear called while the push collection holds no record of the
\* message on its platforms resolves with 0, leaves the stored message as it
\* is and issues no update.
C12_ClearOfNothing ==
    [][(clearPc = "idle" /\ clearPc' # "idle" /\ Sum(Deleted(message, queue)) = 0) =>
          /\ clearPc' = "resolved"
          /\ clearRet' = 0
          /\ msgDoc' = msgDoc
          /\ updates' = updates]_vars

\* C13: a terminate that settled, alone, with no run started and the
\* message store taking updates, has
\* resolved with the number of records clear deleted, result.processed is
\* raised by that number, the state is Done|Error and result.error is set.
C13_TerminateSetsState ==
    (termPc # "idle" /\ storeUp /\ clearPc = "idle" /\ clear2Pc = "idle" /\ pc = "idle") =>
        /\ termPc = "resolved"
        /\ msgDoc.state = {"Done", "Error"}
        /\ Has(msgDoc.error)
        /\ \E q \in Queues :
              /\ Cleared(q)
              /\ termRet = Sum(Deleted(message, q))
              /\ msgDoc.processed = termRet

C15_TwoClearsCountOnce ==
    (clearPc # "idle" /\ clear2Pc # "idle" /\ storeUp /\ termPc = "idle" /\ pc = "idle") =>
        /\ clearPc = "resolved"
        /\ clear2Pc = "resolved"
        /\ \E q \in Queues :
              /\ Cleared(q)
              /\ clearRet + clear2Ret = Sum(Deleted(message, q))
              /\ msgDoc.processed = Sum(Deleted(message, q))

\* the user's offset in minutes as C16 words it: the stored timezone when
\* there is one, the offset of the app's timezone otherwise
StoredOrAppOffset(usr) == IF usr.tz = <<>> THEN app.offset ELSE usr.tz[1]

\* C16: the instant a PlainApiMapper computes for a user is the nominal date
\* when the trigger has no timezone flag, and otherwise the nominal date less
\* sctz minutes and less the user's offset in minutes, a stored 0 included.
C16_ImmediateInstant ==
    Immediate =>
        PlainApiDate(lastMap[1].mapper, lastMap[1].user, start)
            = IF trigger.tz
                 THEN start - trigger.sctz * 60000
                            - StoredOrAppOffset(lastMap[1].user) * 60000
                 ELSE start

C16_Witness ==
    /\ Immediate
    /\ trigger.tz
    /\ trigger.sctz # 0
    /\ lastMap[1].user.tz = <<0>>
    /\ app.offset # 0

\* the calls of steps() that resolved
Resolved == {k \in 1..Len(compiled) : compiled[k].out.status = "ok"}

\* the token restriction of the message: an OR over its (platform, field) pairs
TokenOr == [op |-> "match_or", flds |-> PlatformFields(message.platforms)]

\* C17: the steps of every call of steps() that resolved begin with the
\* token OR over the targeted (platform, field) pairs and end with the
\* projection asked for, and are those two steps alone when the filter of
\* the message was empty.
C17_TokenFirstProjectLast ==
    \A k \in Resolved :
        LET sts == compiled[k].out.steps
        IN  /\ Len(sts) >= 2
            /\ sts[1] = TokenOr
            /\ sts[Len(sts)] = [op |-> "project", project |-> compiled[k].project]
            /\ \A n \in 2..(Len(sts) - 1) : sts[n].op \notin {"match_or", "project"}
            /\ compiled[k].before = EmptyFilter => Len(sts) = 2

C17_Witness ==
    \E k \in Resolved :
        /\ compiled[k].before = EmptyFilter
        /\ compiled[k].project = "userFields"
        /\ Len(compiled[k].out.steps) = 2
        /\ Len(message.platforms) = 2

\* the calls of steps() on a filter with a drill query that met the drill
\* plugin installed and no failure of a store or plugin before it
Drilled ==
    {k \in 1..Len(compiled) :
        /\ Has(compiled[k].before.drill)
        /\ providers.drill
        /\ providers.fail = "none"
        /\ Has(compiled[k].before.user) => compiled[k].before.user[1].message # "in"}

\* is the query object of drill query q the single key chr
ChrOnly(q) ==
    Has(q.queryObject) /\ Has(q.queryObject[1].chr) /\ q.queryObject[1].keys = {}

\* C18: a call of steps() with a drill query and the drill plugin resolves;
\* when the query object is the single key chr it has not called fetchUsers
\* and its last restriction requires chr.<id>.in truthy for every id of $in
\* and absent for every id of $nin; in every other case it has called
\* fetchUsers once and its last restriction is on the uids returned.
C18_DrillRestriction ==
    \A k \in Drilled :
        LET q == compiled[k].before.drill[1]
            out == compiled[k].out
            last == out.steps[Len(out.steps) - 1]
        IN  /\ out.status = "ok"
            /\ IF ChrOnly(q)
                  THEN /\ out.fetches = 0
                       /\ last.op = "match_chr"
                       /\ \A id \in Range(q.queryObject[1].chr[1].in) :
                             id \in DOMAIN last.marks /\ last.marks[id] = "true"
                       /\ \A id \in Range(q.queryObject[1].chr[1].nin) :
                             id \in DOMAIN last.marks /\ last.marks[id] = "notexists"
                  ELSE /\ out.fetches = 1
                       /\ last = [op |-> "match_uid", uids |-> providers.uids]

\* the calls of steps() made on a user query that embedded a geo sub-query
GeoEmbedded ==
    {k \in 1..Len(compiled) :
        Has(compiled[k].before.user) /\ compiled[k].before.user[1].geo}

\* does call k resolve when its user query is taken without the geo sub-query
ResolvesWithoutGeo(k) ==
    StepsCall([message EXCEPT !.filter = [compiled[k].before EXCEPT !.user[1].geo = FALSE]],
              compiled[k].project, providers).status = "ok"

\* the residual user queries among the steps of call k
Residuals(k) ==
    {compiled[k].out.steps[n].query :
        n \in {i \in 1..Len(compiled[k].out.steps) :
                  compiled[k].out.steps[i].op = "match_query"}}

\* C19: a call of steps() on a user query with a geo sub-query, with both
\* plugins installed and geo().query giving no region, resolves whenever it
\* would without the sub-query, and emits a residual query that carries
\* invalidgeo; no residual query emitted by any call holds the key geo.
C19_NoRegionMarksInvalid ==
    \A k \in GeoEmbedded :
        /\ (/\ providers.geo
            /\ providers.drill
            /\ providers.regions = <<>>
            /\ providers.fail # "regions"
            /\ ResolvesWithoutGeo(k))
              => /\ compiled[k].out.status = "ok"
                 /\ \E q \in Residuals(k) : q.invalidgeo
        /\ compiled[k].out.status = "ok" => \A q \in Residuals(k) : ~q.geo

C19_Witness ==
    \E k \in GeoEmbedded :
        /\ providers.geo
        /\ providers.drill
        /\ providers.regions = <<>>
        /\ compiled[k].before.user[1].rest = {}
        /\ compiled[k].out.status = "ok"
        /\ \E q \in Residuals(k) : q.invalidgeo /\ ~q.geo

\* the outcome of call k had it been made on filter f with plugins prov
CallOn(k, f, prov) == StepsCall([message EXCEPT !.filter = f], compiled[k].project, prov)

\* do two outcomes settle alike, with the same steps when they resolve
SameSteps(o1, o2) ==
    /\ o1.status = o2.status
    /\ o1.status = "ok" => o1.steps = o2.steps

\* the calls made on a filter with regions listed and no geo plugin, and on
\* a filter with a drill query and no drill plugin
GeoMissing == {k \in 1..Len(compiled) : Len(compiled[k].before.geos) > 0 /\ ~providers.geo}
DrillMissing == {k \in 1..Len(compiled) : Has(compiled[k].before.drill) /\ ~providers.drill}

\* filter f without the geo sub-query of its user query
DropUserGeo(f) == IF Has(f.user) THEN [f EXCEPT !.user[1].geo = FALSE] ELSE f

\* C20 as stated: a call on a filter with regions listed and no geo plugin
\* settles as the call with the plugin does on the filter without the
\* regions, with the same steps; likewise for a drill query and the drill
\* plugin.
C20_MissingProviderSkipsOnlyItsDimension ==
    /\ \A k \in GeoMissing :
          SameSteps(compiled[k].out,
                    CallOn(k, [compiled[k].before EXCEPT !.geos = <<>>],
                           [providers EXCEPT !.geo = TRUE]))
    /\ \A k \in DrillMissing :
          SameSteps(compiled[k].out,
                    CallOn(k, [compiled[k].before EXCEPT !.drill = <<>>],
                           [providers EXCEPT !.drill = TRUE]))

\* C20, amended: a call on a filter with regions listed and no geo plugin
\* settles as the call with the plugin does on the filter without the
\* regions and without the geo sub-query of the user query, with the same
\* steps; likewise for a drill query and the drill plugin.
C20_MissingProviderSkipsGeoSubQueryToo ==
    /\ \A k \in GeoMissing :
          SameSteps(compiled[k].out,
                    CallOn(k, DropUserGeo([compiled[k].before EXCEPT !.geos = <<>>]),
                           [providers EXCEPT !.geo = TRUE]))
    /\ \A k \in DrillMissing :
          SameSteps(compiled[k].out,
                    CallOn(k, DropUserGeo([compiled[k].before EXCEPT !.drill = <<>>]),
                           [providers EXCEPT !.drill = TRUE]))

C20_Witness ==
    \E k \in DrillMissing :
        /\ providers.geo
        /\ Len(compiled[k].before.geos) > 0
        /\ Has(compiled[k].before.user)
        /\ compiled[k].before.user[1].geo
        /\ compiled[k].before.user[1].rest # {}
        /\ compiled[k].out.status = "ok"
        /\ Len(compiled[k].out.steps) = 4

\* the place of the user with this uid in the collection, which is the order
\* the cursor yields the matching users in
Arrival(uid) == CHOOSE n \in 1..Len(users) : users[n].uid = uid

\* was the call <<uid, slot>> of mapper.map made no later than <<uid2, slot2>>
InOrder(c1, c2) ==
    \/ Arrival(c1[1]) < Arrival(c2[1])
    \/ c1[1] = c2[1] /\ c1[2] <= c2[2]

\* the call of mapper.map that record r comes from
CallOf(r) ==
    CHOOSE k \in 1..Len(mapLog) :
        /\ mapLog[k][1] = r.u
        /\ mappers[mapLog[k][2]].p = r.p
        /\ mappers[mapLog[k][2]].f = r.f

Calls(uid, k) == {n \in 1..Len(mapLog) : mapLog[n] = <<uid, k>>}

\* the place of platform p in message.platforms
PlatformAt(p) == CHOOSE n \in 1..Len(message.platforms) : message.platforms[n] = p

\* C23: this.mappers holds, for each platform of the message and each token
\* field of that platform, exactly one mapper, platform by platform in the
\* order of message.platforms; all are PlainApiMapper for an API or Plain
\* trigger and CohortsEventsMapper otherwise; and once run() is through
\* with a user, every mapper was called exactly once for that user.
C23_OneMapperPerPairOneCallPerUser ==
    \A ms \in {mappers} :
        /\ \A n \in 1..Len(message.platforms) :
              \A j \in 1..Len(FIELDS(message.platforms[n])) :
                  Cardinality({k \in 1..Len(ms) :
                                  /\ ms[k].p = message.platforms[n]
                                  /\ ms[k].f = FIELDS(message.platforms[n])[j]}) = 1
        /\ \A k \in 1..Len(ms) :
              /\ \E n \in 1..Len(message.platforms) :
                    /\ ms[k].p = message.platforms[n]
                    /\ \E j \in 1..Len(FIELDS(message.platforms[n])) :
                          ms[k].f = FIELDS(message.platforms[n])[j]
              /\ ms[k].class = IF trigger.kind \in {"api", "plain"}
                                  THEN "PlainApiMapper" ELSE "CohortsEventsMapper"
        /\ \A k, l \in 1..Len(ms) :
              k < l => PlatformAt(ms[k].p) <= PlatformAt(ms[l].p)
        /\ \A n \in 1..Len(streamed) : \A k \in 1..Len(ms) :
              /\ Cardinality(Calls(streamed[n].uid, k)) <= 1
              /\ pc \in {"streaming", "final", "done"} =>
                    Cardinality(Calls(streamed[n].uid, k)) = 1

\* a run of a cohort trigger over two users and three mappers is Done
C23_Witness ==
    /\ pc = "done"
    /\ trigger.kind = "cohort"
    /\ Len(streamed) = 2
    /\ Len(mappers) = 3
    /\ Len(mapLog) = 6

\* the instant the last call of CohortsEventsMapper.map computed for its
\* record, <<>> when it returned null
LastAnchoredDate == CohortsEventsDate(lastMap[1].mapper, lastMap[1].user, start, now)

Untouched ==
    [processed |-> 0, cancelled |-> [k \in ErrorKeys |-> 0], state |-> {"Streamable"},
     error |-> <<>>]

Restrictions(k) == SubSeq(compiled[k].out.steps, 1, Len(compiled[k].out.steps) - 1)

\* how many of the steps of call k are of this kind
CountOp(k, op) ==
    Cardinality({n \in 1..Len(compiled[k].out.steps) : compiled[k].out.steps[n].op = op})

\* two calls of steps() were made, no store or plugin failing, on a message
\* whose user query embedded a message or a geo sub-query
TwiceOnSubQueries ==
    /\ Len(compiled) = 2
    /\ providers.fail = "none"
    /\ Has(compiled[1].before.user)
    /\ compiled[1].before.user[1].message # "none" \/ compiled[1].before.user[1].geo

\* C26: after the first of two calls of steps() on a message whose user
\* query embedded a message or a geo sub-query, those keys are gone from the
\* filter of the message; the second call settles as the first does, and
\* when they resolve the second has no restriction for the sub-queries (its
\* uid restrictions are those of fetchUsers, its region restrictions those
\* of filter.geos) and its restrictions are not those of the first.
C26_SecondCallDiffers ==
    TwiceOnSubQueries =>
        /\ compiled[2].before.user[1].message = "none"
        /\ ~compiled[2].before.user[1].geo
        /\ compiled[2].out.status = compiled[1].out.status
        /\ compiled[1].out.status = "ok" =>
              /\ CountOp(2, "match_uid") = compiled[2].out.fetches
              /\ CountOp(2, "match_geo")
                    = IF Len(compiled[2].before.geos) > 0 /\ providers.geo THEN 1 ELSE 0
              /\ Restrictions(2) # Restrictions(1)

\* C27: a clear that settled, alone and with no run started, while the
\* message store rejects updates, has rejected; the counters of the stored
\* message and of the message in memory are as they were; and the records
\* of the message on its platforms are deleted from the push collection.
C27_FailedUpdateLeavesCountersAlone ==
    (clearPc # "idle" /\ ~storeUp /\ clear2Pc = "idle" /\ termPc = "idle" /\ pc = "idle") =>
        /\ clearPc = "rejected"
        /\ msgDoc = Untouched
        /\ mirror = [processed |-> 0, cancelled |-> [k \in ErrorKeys |-> 0]]
        /\ \E q \in Queues : Cleared(q)

\* C28: in every state of a ScheduledTrigger, after its construction and any calls
\* of syncRules, every rule it holds has trigger type 'ScheduledTrigger'
C28_HoldsOnlyScheduledRules ==
    \A i \in 1..Len(rules) : IsScheduled(rules[i])

\* C28: syncRules with an array replaces the held rules by the array's rules of
\* type 'ScheduledTrigger' in their order, and with anything else leaves them alone
C28_SyncRulesFilters ==
    [][synced' # synced =>
          IF IsArray(synced')
             THEN /\ rules' = SelectSeq(synced'.items,
                                        LAMBDA r : r.trigger.type = "ScheduledTrigger")
                  /\ \A i \in 1..Len(rules') : IsScheduled(rules'[i])
             ELSE rules' = rules]_vars

\* a rule of another trigger type, held since construction, reaches the pipeline
C28_OtherRulePiped ==
    /\ synced.kind \in {"none", "undefined", "null", "object"}
    /\ \E i \in 1..Len(piped) : ~IsScheduled(piped[i])

====
